---- MODULE Spec2Model ----
(***************************************************************************)
(* Cross-exchange spread monitor: the evaluation loop of SpreadStrategy    *)
(* (src/src/strategy/spread.py), its debounce and periodic-broadcast       *)
(* policy, the fan-out to the notifiers (src/src/core/notifier.py) and the *)
(* BBO evaluation built on ExchangeManager (src/src/core/exchange.py).     *)
(***************************************************************************)
EXTENDS Integers, Sequences, FiniteSets, TLC

VARIABLES
    exchanges,                \* exchange_manager.exchanges: the names, in dict order
    markets,                  \* exchange.markets.keys() of every exchange
    running,                  \* SpreadStrategy.running
    pc,                       \* position of the coroutine start()
    now,                      \* the clock read by datetime.now()
    prices,                   \* check_spreads: prices[name][symbol] = ticker['last']
    todo,                     \* check_spreads: iterations (pair, ex1, ex2) still to run
    last_alert_time,          \* SpreadStrategy.last_alert_time
    last_periodic_alert_time, \* SpreadStrategy.last_periodic_alert_time
    p_now,                    \* check_periodic_alert: the local `now`
    event,                    \* the dispatch in progress or last finished
    sink,                     \* index of the notifier the dispatch loop is at
    attempts,                 \* deliveries attempted per notifier for `event`
    last_emit,                \* history: the latest alert of each (pair, ex1, ex2)
    last_broadcast,           \* history: when the latest broadcast was emitted
    compared,                 \* this tick: (pair, ex1, ex2) whose spread was computed
    outcome,                  \* what the last iteration of check_spreads did
    tick,                     \* this tick: what has run in it
    orderbook,                \* what fetch_order_book(symbol) gives on each exchange
    arb,                      \* the last call of get_arbitrage_opportunities
    bbo_result,               \* the last call of get_bbo_info
    summary,                  \* the last periodic message built from `bbo_result`
    m_running,                \* ExchangeManager.running
    closing,                  \* position of ExchangeManager.close()
    watcher,                  \* position of each task _watch_orderbook(name, symbol)
    orderbooks,               \* ExchangeManager.orderbooks
    best,                     \* the call of get_best_prices made in the last step
    config_file,              \* config.yaml as main() finds it
    config_data,              \* Config.config_data
    main_pc,                  \* position of the coroutine main()
    main_error,               \* the exception main() caught, "none" if none
    exit_code,                \* the process's exit status, -1 while it runs
    components,               \* the objects main() has created
    interrupted,              \* a stop signal has been delivered to the process
    order_call,               \* the last order operation called on the manager
    venue_calls,              \* the order requests forwarded to a venue so far
    entry_point,              \* the entry point that runs: main.py or monitor_spread.py
    manager_config,           \* what ExchangeManager.__init__ was given as config
    init_todo,                \* initialize(): the exchanges its loop has still to reach
    close_calls               \* close(): the exchange.close() awaited so far, in order

loop_vars == <<running, pc, now, prices, todo, last_alert_time,
               last_periodic_alert_time, p_now, event, sink, attempts, last_emit,
               last_broadcast, compared, outcome, tick>>
engine_vars == <<orderbook, arb, bbo_result, summary>>
feed_vars == <<m_running, closing, watcher, orderbooks, best>>
order_vars == <<order_call, venue_calls>>
release_vars == <<entry_point, manager_config, init_todo, close_calls>>
process_vars == <<config_file, config_data, main_pc, main_error, exit_code,
                  components, interrupted, order_vars, release_vars>>
vars == <<exchanges, markets, loop_vars, engine_vars, feed_vars, process_vars>>

----------------------------------------------------------------------------
(* Configuration and environment *)

\* the deployments explored: the exchanges in config (dict insertion) order,
\* and the markets each one lists after load_markets()
Deployments ==
    {[exchanges |-> <<"okx", "binance", "bybit">>,
      markets |-> [okx |-> {"BTC/USDT", "ETH/BTC"}, binance |-> {"BTC/USDT", "ETH/BTC"},
                   bybit |-> {"BTC/USDT"}]],
     [exchanges |-> <<"okx", "binance">>,
      markets |-> [okx |-> {"BTC/USDT", "ETH/USDT"},
                   binance |-> {"BTC/USDT", "ETH/USDT", "ETH/BTC"}]]}
Symbols == {"BTC/USDT", "ETH/USDT", "ETH/BTC"}
Exchanges == {exchanges[i] : i \in 1..Len(exchanges)}

\* the order of Python's string comparison on the exchange names
NameRank == [binance |-> 1, bybit |-> 2, okx |-> 3]
NameGeq(ex1, ex2) == NameRank[ex1] >= NameRank[ex2]

\* half the width of the book each venue quotes around its last price:
\* ticker['bid'] = last - width, ticker['ask'] = last + width
BookWidth == [binance |-> 0, bybit |-> 0, okx |-> 1]
\* symbol.endswith('/USDT')
EndsWithUSDT(symbol) == symbol \in {"BTC/USDT", "ETH/USDT"}

\* the configured notifiers
Notifiers == <<"lark", "telegram">>

MinSpread == 1
CheckInterval == 1
AlertInterval == 3
PeriodicAlertInterval == 2

\* bounds of the exploration
MaxTime == 3
MaxFaults == 1
MaxFeedTime == 2

\* time an awaited fetch or an oversleep may take
Delays == {0, 1}
\* time an awaited delivery may take: the post has no timeout, so a sink may
\* answer only when the cooldown of the alert has passed
DeliveryDelays == Delays \cup {AlertInterval}
\* ticker['last'] values a venue may report
LastPrices == {100, 101}
\* ticker['last'] is None (or 0): falsy
NoPrice == 0

Abs(x) == IF x < 0 THEN 0 - x ELSE x
Min(x, y) == IF x <= y THEN x ELSE y

\* list(a_set): the set's elements in the order this process iterates them
\* (fixed by the string hashes of the run)
HashOrder == <<"ETH/USDT", "ETH/BTC", "BTC/USDT">>
ListOf(S) == SelectSeq(HashOrder, LAMBDA x : x \in S)

RECURSIVE Concat(_)
Concat(ss) == IF ss = <<>> THEN <<>> ELSE Head(ss) \o Concat(Tail(ss))

RECURSIVE Intersection(_)
Intersection(SS) ==
    IF SS = {} THEN {}
    ELSE LET S == CHOOSE x \in SS : TRUE
         IN IF SS = {S} THEN S ELSE S \cap Intersection(SS \ {S})

----------------------------------------------------------------------------
(* check_spreads: collecting the prices *)

\* the (exchange, symbol) pairs for which fetch_ticker is awaited
TickerSlots == {sl \in Exchanges \X Symbols :
                  sl[2] \in markets[sl[1]] /\ EndsWithUSDT(sl[2])}

\* what can go wrong in one tick: `markets` = exchanges whose market listing
\* raises (the outer handler), `raised` = tickers whose fetch raises (the inner
\* handler), `none` = tickers whose 'last' is None
FaultPatterns ==
    {f \in [markets : SUBSET Exchanges, raised : SUBSET TickerSlots,
            none : SUBSET TickerSlots] :
        /\ f.raised \cap f.none = {}
        /\ \A sl \in f.raised \cup f.none : sl[1] \notin f.markets
        /\ Cardinality(f.markets) + Cardinality(f.raised)
             + Cardinality(f.none) <= MaxFaults}

\* the tickers that report a price under fault pattern f
Quoted(f) == {sl \in TickerSlots : sl[1] \notin f.markets /\ sl \notin f.raised \cup f.none}

\* the dict `prices` that the first loop of check_spreads builds
CollectPrices(f, last) ==
    [name \in Exchanges \ f.markets |->
        [symbol \in {s \in markets[name] : EndsWithUSDT(s) /\ <<name, s>> \notin f.raised} |->
            IF <<name, symbol>> \in f.none THEN NoPrice ELSE last[<<name, symbol>>]]]

\* _get_common_pairs(prices)
GetCommonPairs(pr) == Intersection({DOMAIN pr[name] : name \in DOMAIN pr})

\* the pairs (ex1, ex2) that pass `if ex1 >= ex2: continue`, in loop order
ExchangePairs ==
    LET n == Len(exchanges)
        all == [k \in 1..(n * n) |->
                  <<exchanges[((k - 1) \div n) + 1], exchanges[((k - 1) % n) + 1]>>]
    IN SelectSeq(all, LAMBDA p : ~NameGeq(p[1], p[2]))

\* the iterations of the comparison loop for the common pairs taken in `order`
Iterations(order) ==
    Concat([i \in 1..Len(order) |->
              [k \in 1..Len(ExchangePairs) |->
                 <<order[i], ExchangePairs[k][1], ExchangePairs[k][2]>>]])

\* prices[ex].get(pair)
GetPrice(pr, ex, pair) == IF pair \in DOMAIN pr[ex] THEN pr[ex][pair] ELSE NoPrice

\* a plausible slip: the spread is compared with 0, not with min_spread
MeetsThresholdZero(price1, price2) ==
    Abs(price1 - price2) * 100 >= 0 * Min(price1, price2)

\* spread = abs(price1 - price2) / min(price1, price2) * 100;  spread >= min_spread
MeetsThreshold(price1, price2) ==
    Abs(price1 - price2) * 100 >= MinSpread * Min(price1, price2)

----------------------------------------------------------------------------
(* _handle_spread_alert: the debounce *)

\* the venue the alert message names first: min(prices.items(), key=price)
MinExchange(ex1, price1, ex2, price2) == IF price1 <= price2 THEN ex1 ELSE ex2

\* a plausible slip: the cooldown is kept per direction
DirectedKey(pair, ex1, price1, ex2, price2) ==
    <<pair, MinExchange(ex1, price1, ex2, price2)>>

\* a plausible slip: the cooldown is kept per venue pair
VenuePairKey(pair, ex1, price1, ex2, price2) == <<pair, ex1, ex2>>

\* the key of last_alert_time, from the arguments (pair, {ex1: price1, ex2: price2})
DebounceKey(pair, ex1, price1, ex2, price2) == <<pair>>

\* a plausible slip: the cooldown ends one second early
SuppressedShort(key, t) ==
    key \in DOMAIN last_alert_time /\ t - last_alert_time[key] < AlertInterval - 1

\* a plausible slip: <= for <
SuppressedInclusive(key, t) ==
    key \in DOMAIN last_alert_time /\ t - last_alert_time[key] <= AlertInterval

\* if last_alert and now - last_alert < timedelta(seconds=alert_interval): return
Suppressed(key, t) ==
    key \in DOMAIN last_alert_time /\ t - last_alert_time[key] < AlertInterval

\* a plausible slip: the time is stored for every key, not for the one alerted
PutTimeGlobal(d, key, t) == [k \in DOMAIN d \cup {key} |-> t]

\* self.last_alert_time[pair] = now
PutTime(d, key, t) == [k \in DOMAIN d \cup {key} |-> IF k = key THEN t ELSE d[k]]

\* a plausible slip: the timer starts at the time of construction
StartOfTimerNow(t) == t

\* __init__: datetime.now() - timedelta(seconds=periodic_alert_interval)
StartOfTimer(t) == t - PeriodicAlertInterval

\* a plausible slip: > for >=
PeriodicDueStrict(t) == t - last_periodic_alert_time > PeriodicAlertInterval

\* check_periodic_alert: now - last_periodic_alert_time >= periodic_alert_interval
PeriodicDue(t) == t - last_periodic_alert_time >= PeriodicAlertInterval

----------------------------------------------------------------------------
(* The notifier loops *)

NotifierIds == 1..Len(Notifiers)
\* what one awaited notifier call can do: return after a successful post,
\* return after a failure the notifier logged itself (non-200, network error),
\* or raise to the caller
DeliveryResults == {"ok", "failed", "raise"}

\* a plausible slip: no handler around the call, the exception leaves the loop
SpreadDeliveryUncaught(i, result) ==
    IF result = "raise" THEN [next |-> i, propagate |-> TRUE]
    ELSE [next |-> i + 1, propagate |-> FALSE]

\* try: await notifier.send_spread_alert(...)  except Exception: logger.error
AfterSpreadDelivery(i, result) == [next |-> i + 1, propagate |-> FALSE]

\* a plausible slip: a delivery that did not succeed is tried again
PeriodicDeliveryRetried(i, result) ==
    [next |-> IF result = "ok" THEN i + 1 ELSE i, propagate |-> FALSE]

\* try: await notifier.send_periodic_alert(...)  except Exception: logger.error
AfterPeriodicDelivery(i, result) == [next |-> i + 1, propagate |-> FALSE]

NoAttempts == [i \in NotifierIds |-> <<>>]

NoOutcome == [result |-> "none", pair |-> "", ex1 |-> "", ex2 |-> "",
              price1 |-> NoPrice, price2 |-> NoPrice, at |-> 0,
              prev_at |-> 0 - 1, prev_buy |-> "", prev_pair_at |-> 0 - 1]

\* when the latest alert for `pair` (any two venues) was emitted, -1 if never
LatestEmit(pair) ==
    LET times == {last_emit[k].at : k \in {k \in DOMAIN last_emit : k[1] = pair}}
    IN IF times = {} THEN 0 - 1 ELSE CHOOSE t \in times : \A u \in times : u <= t

\* `owed` is history, kept only by SleepNoting: building the broadcast raised in
\* the tick before this one
NewTick == [raised |-> FALSE, periodic_ran |-> FALSE, alerts |-> 0, owed |-> FALSE]

----------------------------------------------------------------------------
(* The BBO evaluation: ExchangeManager.get_bbo_info and                      *)
(* SpreadStrategy.get_arbitrage_opportunities                                *)

\* one level of an order book: <<price, volume>>
BidLevels == {<<0, 1>>, <<100, 1>>, <<101, 2>>}
AskLevels == {<<0, 1>>, <<100, 2>>, <<102, 1>>}
\* what fetch_order_book can do: raise, or give a book whose sides may be empty
NoBook == [raises |-> TRUE, bids |-> <<>>, asks |-> <<>>]
BookChoices ==
    {NoBook} \cup
    {[raises |-> FALSE, bids |-> b, asks |-> a] :
        b \in {<<>>} \cup {<<l>> : l \in BidLevels},
        a \in {<<>>} \cup {<<l>> : l \in AskLevels}}

\* get_bbo_info(symbol): the entries of bbo_info in insertion order; an exchange
\* whose fetch raises, whose book has an empty side, or whose own spread
\* (ask - bid) / bid divides by zero is left out by the handler
GetBboInfo(symbol) ==
    LET has(name) == /\ ~orderbook[name].raises
                     /\ orderbook[name].bids # <<>>
                     /\ orderbook[name].asks # <<>>
                     /\ orderbook[name].bids[1][1] # 0
        entry(name) == [name |-> name,
                        bid |-> orderbook[name].bids[1][1],
                        bid_volume |-> orderbook[name].bids[1][2],
                        ask |-> orderbook[name].asks[1][1],
                        ask_volume |-> orderbook[name].asks[1][2]]
        names == SelectSeq(exchanges, has)
    IN [i \in 1..Len(names) |-> entry(names[i])]

\* spread of x >= spread of y, for spread = (sell_price - buy_price) / buy_price * 100
SpreadGeq(x, y) ==
    (x.sell_price - x.buy_price) * y.buy_price >= (y.sell_price - y.buy_price) * x.buy_price

\* opportunities.sort(key=lambda x: x['spread'], reverse=True): stable
RECURSIVE InsertBySpread(_, _)
InsertBySpread(sorted, x) ==
    IF sorted = <<>> THEN <<x>>
    ELSE IF SpreadGeq(Head(sorted), x) THEN <<Head(sorted)>> \o InsertBySpread(Tail(sorted), x)
    ELSE <<x>> \o sorted
RECURSIVE SortBySpread(_)
SortBySpread(ops) ==
    IF ops = <<>> THEN <<>>
    ELSE InsertBySpread(SortBySpread(SubSeq(ops, 1, Len(ops) - 1)), ops[Len(ops)])

\* if spread > 0: opportunities.append(...)
Profitable(buy_price, sell_price) == (sell_price - buy_price) * 100 > 0

\* the two directions examined for entries e1, e2 of bbo_info, those that are
\* appended, in order
Directions(symbol, e1, e2) ==
    LET dir(buy, sell) == [symbol |-> symbol, buy_exchange |-> buy.name,
                           sell_exchange |-> sell.name, buy_price |-> buy.ask,
                           sell_price |-> sell.bid,
                           volume |-> Min(buy.ask_volume, sell.bid_volume)]
    IN (IF Profitable(e1.ask, e2.bid) THEN <<dir(e1, e2)>> ELSE <<>>)
       \o (IF Profitable(e2.ask, e1.bid) THEN <<dir(e2, e1)>> ELSE <<>>)

\* the body of get_arbitrage_opportunities from the nested loops on: the
\* divisions by ask1 and ask2 raise ZeroDivisionError on a zero ask
Opportunities(symbol, bbo) ==
    LET n == Len(bbo)
        visited == SelectSeq([k \in 1..(n * n) |-> <<((k - 1) \div n) + 1, ((k - 1) % n) + 1>>],
                             LAMBDA p : ~NameGeq(bbo[p[1]].name, bbo[p[2]].name))
    IN IF \E k \in 1..Len(visited) :
             bbo[visited[k][1]].ask = 0 \/ bbo[visited[k][2]].ask = 0
       THEN [status |-> "raised", error |-> "ZeroDivisionError", symbol |-> symbol,
             opportunities |-> <<>>]
       ELSE [status |-> "returned", error |-> "", symbol |-> symbol,
             opportunities |->
                SortBySpread(Concat([k \in 1..Len(visited) |->
                    Directions(symbol, bbo[visited[k][1]], bbo[visited[k][2]])]))]

\* whether the name `this`, read by the first statement of
\* get_arbitrage_opportunities, is bound there: the receiver is `self`, and the
\* module defines and imports no `this`
ThisIsBound == FALSE

NoArb == [status |-> "none", error |-> "", symbol |-> "", opportunities |-> <<>>]

\* get_bbo_info: the exchanges for which the spread of the entry,
\* (ask - bid) / bid * 100, divides by a zero bid; the handler of the loop
\* catches the ZeroDivisionError and the exchange gets no entry
BboZeroDivisions(symbol) ==
    {name \in Exchanges : /\ ~orderbook[name].raises
                          /\ orderbook[name].bids # <<>>
                          /\ orderbook[name].asks # <<>>
                          /\ orderbook[name].bids[1][1] = 0}

\* _send_lark_periodic_alert: whether (bid2 - ask1) / ask1 or
\* (bid1 - ask2) / ask2 divides by zero for a pair of entries it visits
SummaryDividesByZero(info) ==
    \E i \in 1..Len(info), j \in 1..Len(info) :
       /\ ~NameGeq(info[i].name, info[j].name)
       /\ (info[i].ask = 0 \/ info[j].ask = 0)

NoBbo == [status |-> "none", symbol |-> "", info |-> <<>>, zero_division |-> {}]
NoSummary == [status |-> "none", error |-> ""]

----------------------------------------------------------------------------
(* The order-book streams: ExchangeManager.start_orderbook_stream,           *)
(* _watch_orderbook, get_best_prices, close                                  *)

\* the symbols a stream is started for: those every exchange lists
StreamSymbols == {symbol \in Symbols :
                    EndsWithUSDT(symbol) /\ \A name \in Exchanges : symbol \in markets[name]}
Watchers == Exchanges \X StreamSymbols

\* await asyncio.sleep(1) after an error
RetryDelay == 1

\* the order books watch_order_book(symbol) can return: the top of book of the
\* symbol, or a book with no bids
StreamBooks(symbol) ==
    LET top == IF symbol = "BTC/USDT" THEN [bid |-> 100, ask |-> 101]
               ELSE [bid |-> 10, ask |-> 11]
    IN {[symbol |-> symbol, bids |-> <<<<top.bid, 1>>>>, asks |-> <<<<top.ask, 1>>>>],
        [symbol |-> symbol, bids |-> <<>>, asks |-> <<<<top.ask, 1>>>>]}

\* this.orderbooks[exchange_name] = orderbook: the key of the store
StoreKey(exchange_name, symbol) == exchange_name

\* the loop condition is not read again
ResumeIgnoresFlag(flag) == "watch"

\* `while this.running`, evaluated when the task is resumed
AfterResume(flag) == IF flag THEN "watch" ELSE "done"

\* the exception leaves the task, which ends
WatchErrorUncaught(w) == "done"

\* except Exception as e: logger.error(...); await asyncio.sleep(1)
AfterWatchError(w) == "backoff"

\* a plausible slip: the levels of the new book are added to the stored ones
PutSnapshotMerged(d, key, snapshot) ==
    [k \in DOMAIN d \cup {key} |->
        IF k # key THEN d[k]
        ELSE IF key \in DOMAIN d
        THEN [snapshot EXCEPT !.bids = @ \o d[key].bids, !.asks = @ \o d[key].asks]
        ELSE snapshot]

\* this.orderbooks[exchange_name] = orderbook
PutSnapshot(d, key, snapshot) ==
    [k \in DOMAIN d \cup {key} |-> IF k = key THEN snapshot ELSE d[k]]

\* get_best_prices: the loop over this.orderbooks.items()
BestPricesOf(d) ==
    LET kept == {k \in DOMAIN d : d[k].bids # <<>> /\ d[k].asks # <<>>}
    IN [k \in kept |-> [bid |-> d[k].bids[1][1], ask |-> d[k].asks[1][1]]]

\* get_best_prices(symbol)
GetBestPrices(symbol) == BestPricesOf(orderbooks)

NoBest == [status |-> "none", symbol |-> "", at |-> 0, prices |-> <<>>]

\* ExchangeManager.__init__
ManagerConstructed ==
    /\ m_running = FALSE
    /\ closing = "open"
    /\ watcher = [w \in Watchers |-> "none"]
    /\ orderbooks = <<>>
    /\ best = NoBest

----------------------------------------------------------------------------
(* The process: Config and main() *)

\* dict.get(key) when the key is missing
None == "<None>"
Get(d, key) == IF key \in DOMAIN d THEN d[key] ELSE None
\* `not value` for a string or None
Falsy(value) == value \in {None, ""}

\* a mapping without the keys that hold None
Strip(r) == [key \in {k \in DOMAIN r : r[k] # None} |-> r[key]]

\* the entries an `exchanges` list of config.yaml may hold
ExchangeConfigs ==
    {Strip([name |-> n, type |-> t, mode |-> m, api_key |-> k, api_secret |-> x]) :
        n \in {None, "okx"}, t \in {None, "okx"},
        m \in {None, "public", "private", "paper"},
        k \in {None, "", "key"}, x \in {None, "", "secret"}}
PublicExchange == [name |-> "binance", type |-> "binance"]
ExchangeLists ==
    {<<>>} \cup {<<exchange>> : exchange \in ExchangeConfigs}
           \cup {<<PublicExchange, exchange>> : exchange \in ExchangeConfigs}
NotifierLists ==
    {<<>>, <<[type |-> "lark"]>>, <<[type |-> "lark"], [type |-> "sms"]>>}

\* the documents config.yaml may hold: a mapping with or without each of the
\* two required keys (the mapping without keys is the empty file)
Documents ==
    {<<>>} \cup {[exchanges |-> e] : e \in ExchangeLists}
           \cup {[notifiers |-> n] : n \in NotifierLists}
           \cup {[exchanges |-> e, notifiers |-> n] :
                    e \in ExchangeLists, n \in NotifierLists}
ConfigFiles ==
    {[status |-> "missing", data |-> <<>>], [status |-> "unparsable", data |-> <<>>]}
      \cup {[status |-> "loaded", data |-> doc] : doc \in Documents}

\* Config._load_config: what it raises
LoadError(file) ==
    IF file.status = "missing" THEN "FileNotFoundError"
    ELSE IF file.status = "unparsable" THEN "ValueError"
    ELSE "none"

\* a plausible slip: the credentials of a private exchange are not looked at
ExchangeErrorNoCredentials(exchange) ==
    IF "name" \notin DOMAIN exchange THEN "ValueError"
    ELSE IF "type" \notin DOMAIN exchange THEN "ValueError"
    ELSE IF "mode" \in DOMAIN exchange /\ exchange["mode"] \notin {"public", "private"}
    THEN "ValueError"
    ELSE "none"

\* Config._validate_config: the body of `for exchange in config_data['exchanges']`
ExchangeError(exchange) ==
    IF "name" \notin DOMAIN exchange THEN "ValueError"
    ELSE IF "type" \notin DOMAIN exchange THEN "ValueError"
    ELSE IF "mode" \in DOMAIN exchange /\ exchange["mode"] \notin {"public", "private"}
    THEN "ValueError"
    ELSE IF /\ Get(exchange, "mode") = "private"
            /\ Falsy(Get(exchange, "api_key")) \/ Falsy(Get(exchange, "api_secret"))
    THEN "ValueError"
    ELSE "none"

\* Config._validate_config: what it raises
ValidateError(data) ==
    IF DOMAIN data = {} THEN "ValueError"
    ELSE IF "exchanges" \notin DOMAIN data THEN "ValueError"
    ELSE IF Len(data["exchanges"]) = 0 THEN "ValueError"
    ELSE IF "notifiers" \notin DOMAIN data THEN "ValueError"
    ELSE IF Len(data["notifiers"]) = 0 THEN "ValueError"
    ELSE IF \E i \in DOMAIN data["exchanges"] : ExchangeError(data["exchanges"][i]) # "none"
    THEN "ValueError"
    ELSE "none"

\* Config._set_defaults, the part on the exchanges: exchange['mode'] = 'public'
SetDefaults(data) ==
    [data EXCEPT !["exchanges"] =
        [i \in DOMAIN @ |->
            IF "mode" \in DOMAIN @[i] THEN @[i]
            ELSE [key \in DOMAIN @[i] \cup {"mode"} |->
                    IF key = "mode" THEN "public" ELSE @[i][key]]]]

\* Config(): what the constructor raises
ConfigError(file) ==
    IF LoadError(file) # "none" THEN LoadError(file) ELSE ValidateError(file.data)

\* what main() hands to ExchangeManager(config): the Config object
ConfigArgument == "Config"
\* config['exchanges']: Config defines properties and no __getitem__
Subscriptable(argument) == argument = "dict"

\* Notifier.__init__: what it raises for one notifier's configuration
NotifierError(notifier_config) ==
    IF Get(notifier_config, "type") \in {"lark", "telegram"} THEN "none" ELSE "ValueError"

\* the exit status of a Python process that ends by KeyboardInterrupt
KeyboardInterruptStatus == 130

\* the order operations of ExchangeManager
OrderOperations == {"create_order", "get_order_status", "cancel_order"}
NoOrder == [op |-> "none", exchange |-> "", outcome |-> "none", forwarded |-> FALSE]

\* names a caller may pass as exchange_name
OrderTargets == {"binance", "okx", "bybit"}
\* what the awaited request to the venue can do
VenueResults == {"returned", "raised"}

\* the configurations an initialized manager can hold: a validated document,
\* as loaded or with the defaults set
ManagerConfigs ==
    LET valid == {file \in ConfigFiles : ConfigError(file) = "none"}
    IN {file.data : file \in valid} \cup {SetDefaults(file.data) : file \in valid}

\* the keys of this.exchanges after initialize()
InitializedNames(data) == {data["exchanges"][i]["name"] : i \in DOMAIN data["exchanges"]}

\* next((ex for ex in config['exchanges'] if ex['name'] == exchange_name), None),
\* the empty mapping standing for None
LookupConfig(data, exchange_name) ==
    LET found == {i \in DOMAIN data["exchanges"] : data["exchanges"][i]["name"] = exchange_name}
    IN IF found = {} THEN <<>>
       ELSE data["exchanges"][CHOOSE i \in found : \A j \in found : i <= j]

\* a plausible slip: only an unknown exchange is refused
OrderRefusedUnknownOnly(exchange_config) == DOMAIN exchange_config = {}

\* if not exchange_config or exchange_config.get('mode', 'public') != 'private'
OrderRefused(exchange_config) ==
    \/ DOMAIN exchange_config = {}
    \/ (IF "mode" \in DOMAIN exchange_config THEN exchange_config["mode"] ELSE "public")
          # "private"

\* no entry point has been run on the manager
ReleaseAtRest ==
    /\ entry_point = "none"
    /\ manager_config = ConfigArgument
    /\ init_todo = <<>>
    /\ close_calls = <<>>

\* the process before main() has run a statement
ProcessAtRest ==
    /\ config_file = [status |-> "missing", data |-> <<>>]
    /\ config_data = <<>>
    /\ main_pc = "idle"
    /\ main_error = "none"
    /\ exit_code = 0 - 1
    /\ components = {}
    /\ interrupted = FALSE
    /\ order_call = NoOrder
    /\ venue_calls = {}
    /\ ReleaseAtRest

----------------------------------------------------------------------------
(* The evaluation loop: SpreadStrategy.start and what it awaits *)

\* ExchangeManager.initialize has loaded the markets of every exchange
Deployed ==
    \E dep \in Deployments :
       /\ exchanges = dep.exchanges
       /\ markets = dep.markets

\* SpreadStrategy.__init__
Constructed ==
    /\ running = FALSE
    /\ pc = "idle"
    /\ now = 0
    /\ prices = <<>>
    /\ todo = <<>>
    /\ last_alert_time = <<>>
    /\ last_periodic_alert_time = StartOfTimer(0)
    /\ p_now = 0
    /\ event = "none"
    /\ sink = 0
    /\ attempts = NoAttempts
    /\ last_emit = <<>>
    /\ last_broadcast = 0 - 1
    /\ compared = {}
    /\ outcome = NoOutcome
    /\ tick = NewTick

Init ==
    /\ Deployed
    /\ Constructed
    /\ orderbook = [name \in Exchanges |-> NoBook]
    /\ arb = NoArb
    /\ bbo_result = NoBbo
    /\ summary = NoSummary
    /\ ManagerConstructed
    /\ ProcessAtRest

\* start(): self.running = True, and the loop is entered
Start ==
    /\ pc = "idle"
    /\ running' = TRUE
    /\ pc' = "check_spreads"
    /\ UNCHANGED <<exchanges, markets, now, prices, todo, last_alert_time,
                   last_periodic_alert_time, p_now, event, sink, attempts, last_emit, last_broadcast, compared,
                   outcome, tick>>
    /\ UNCHANGED <<engine_vars, feed_vars, process_vars>>

\* stop(): self.running = False, from another task while the loop is suspended
Stop ==
    /\ running
    /\ running' = FALSE
    /\ UNCHANGED <<exchanges, markets, pc, now, prices, todo, last_alert_time,
                   last_periodic_alert_time, p_now, event, sink, attempts, last_emit,
                   last_broadcast, compared, outcome, tick>>
    /\ UNCHANGED <<engine_vars, feed_vars, process_vars>>

\* check_spreads, first loop: the tickers of every exchange are awaited
FetchPrices ==
    /\ pc = "check_spreads"
    /\ \E f \in FaultPatterns, d \in Delays :
         \E last \in [Quoted(f) -> LastPrices] :
           LET pr == CollectPrices(f, last)
           IN /\ now + d <= MaxTime
              /\ now' = now + d
              /\ prices' = pr
              /\ todo' = Iterations(ListOf(GetCommonPairs(pr)))
    /\ pc' = "compare"
    /\ UNCHANGED <<exchanges, markets, running, last_alert_time,
                   last_periodic_alert_time, p_now, event, sink, attempts, last_emit,
                   last_broadcast, compared, outcome, tick>>
    /\ UNCHANGED <<engine_vars, feed_vars, process_vars>>

\* check_spreads, second loop: one iteration (pair, ex1, ex2)
Compare ==
    /\ pc = "compare"
    /\ todo # <<>>
    /\ LET pair == Head(todo)[1]
           ex1 == Head(todo)[2]
           ex2 == Head(todo)[3]
           venues == <<pair, ex1, ex2>>
           done(res, p1, p2) ==
               [result |-> res, pair |-> pair, ex1 |-> ex1, ex2 |-> ex2,
                price1 |-> p1, price2 |-> p2, at |-> now,
                prev_at |-> IF venues \in DOMAIN last_emit
                            THEN last_emit[venues].at ELSE 0 - 1,
                prev_buy |-> IF venues \in DOMAIN last_emit
                             THEN last_emit[venues].buy ELSE "",
                prev_pair_at |-> LatestEmit(pair)]
           quiet == /\ event' = "none"
                    /\ sink' = 0
                    /\ attempts' = NoAttempts
                    /\ UNCHANGED <<last_alert_time, last_emit>>
       IN IF ex1 \notin DOMAIN prices \/ ex2 \notin DOMAIN prices
          THEN \* prices[ex] raises KeyError: out of check_spreads, into the
               \* handler of start()
               /\ pc' = "except"
               /\ tick' = [tick EXCEPT !.raised = TRUE]
               /\ outcome' = done("keyerror", NoPrice, NoPrice)
               /\ quiet
               /\ UNCHANGED <<todo, compared>>
          ELSE LET price1 == GetPrice(prices, ex1, pair)
                   price2 == GetPrice(prices, ex2, pair)
                   key == DebounceKey(pair, ex1, price1, ex2, price2)
                   emits == /\ price1 # NoPrice /\ price2 # NoPrice
                            /\ MeetsThreshold(price1, price2)
                            /\ ~Suppressed(key, now)
               IN /\ todo' = Tail(todo)
                  /\ tick' = [tick EXCEPT !.alerts = IF emits THEN @ + 1 ELSE @]
                  /\ IF price1 = NoPrice \/ price2 = NoPrice
                     THEN /\ outcome' = done("skipped", price1, price2)
                          /\ quiet
                          /\ UNCHANGED <<pc, compared>>
                     ELSE /\ compared' = compared \cup {<<pair, ex1, ex2>>}
                          /\ IF ~MeetsThreshold(price1, price2)
                             THEN /\ outcome' = done("below", price1, price2)
                                  /\ quiet
                                  /\ UNCHANGED pc
                             ELSE IF Suppressed(key, now)
                             THEN /\ outcome' = done("suppressed", price1, price2)
                                  /\ quiet
                                  /\ UNCHANGED pc
                             ELSE /\ outcome' = done("emitted", price1, price2)
                                  /\ last_alert_time' = PutTime(last_alert_time, key, now)
                                  /\ last_emit' = PutTime(last_emit, venues,
                                       [at |-> now,
                                        buy |-> MinExchange(ex1, price1, ex2, price2)])
                                  /\ event' = "spread"
                                  /\ sink' = 1
                                  /\ attempts' = NoAttempts
                                  /\ pc' = IF Len(Notifiers) = 0 THEN "compare"
                                           ELSE "alert_send"
    /\ UNCHANGED <<exchanges, markets, running, now, prices,
                   last_periodic_alert_time, p_now, last_broadcast>>
    /\ UNCHANGED <<engine_vars, feed_vars, process_vars>>

\* _handle_spread_alert: one turn of `for notifier in self.notifiers`
SendSpreadAlert ==
    /\ pc = "alert_send"
    /\ \E result \in DeliveryResults, d \in DeliveryDelays :
         LET after == AfterSpreadDelivery(sink, result)
         IN /\ now + d <= MaxTime
            /\ now' = now + d
            /\ attempts' = [attempts EXCEPT ![sink] = Append(@, result)]
            /\ sink' = after.next
            /\ IF after.propagate
               THEN /\ pc' = "except"
                    /\ tick' = [tick EXCEPT !.raised = TRUE]
               ELSE /\ pc' = IF after.next > Len(Notifiers) THEN "compare" ELSE "alert_send"
                    /\ tick' = tick
    /\ UNCHANGED <<exchanges, markets, running, prices, todo, last_alert_time,
                   last_periodic_alert_time, p_now, event, last_emit, last_broadcast,
                   compared, outcome>>
    /\ UNCHANGED <<engine_vars, feed_vars, process_vars>>

\* check_periodic_alert, entered when check_spreads has returned; when the
\* broadcast is due, _send_periodic_alert first gathers the BBO of the common
\* symbols, outside any handler: `gathered` is FALSE when reading an exchange's
\* market listing raises there
CheckPeriodicAlert ==
    /\ pc = "compare"
    /\ todo = <<>>
    /\ p_now' = now
    /\ prices' = <<>>
    /\ compared' = {}
    /\ outcome' = NoOutcome
    /\ attempts' = NoAttempts
    /\ IF PeriodicDue(now)
       THEN \E gathered \in BOOLEAN :
              IF gathered
              THEN /\ last_broadcast' = now
                   /\ event' = "periodic"
                   /\ sink' = 1
                   /\ tick' = [tick EXCEPT !.periodic_ran = TRUE]
                   /\ IF Len(Notifiers) = 0
                      THEN /\ last_periodic_alert_time' = now
                           /\ pc' = "sleep"
                      ELSE /\ pc' = "periodic_send"
                           /\ UNCHANGED last_periodic_alert_time
              ELSE /\ pc' = "except"
                   /\ event' = "none"
                   /\ sink' = 0
                   /\ tick' = [tick EXCEPT !.periodic_ran = TRUE, !.raised = TRUE]
                   /\ UNCHANGED <<last_broadcast, last_periodic_alert_time>>
       ELSE /\ pc' = "sleep"
            /\ event' = "none"
            /\ sink' = 0
            /\ tick' = [tick EXCEPT !.periodic_ran = TRUE]
            /\ UNCHANGED <<last_broadcast, last_periodic_alert_time>>
    /\ UNCHANGED <<exchanges, markets, running, now, todo, last_alert_time, last_emit>>
    /\ UNCHANGED <<engine_vars, feed_vars, process_vars>>

\* _send_periodic_alert: one turn of `for notifier in self.notifiers`; after the
\* last one check_periodic_alert stores the time it read
SendPeriodicAlert ==
    /\ pc = "periodic_send"
    /\ \E result \in DeliveryResults, d \in DeliveryDelays :
         LET after == AfterPeriodicDelivery(sink, result)
         IN /\ now + d <= MaxTime
            /\ now' = now + d
            /\ attempts' = [attempts EXCEPT ![sink] = Append(@, result)]
            /\ sink' = after.next
            /\ IF after.propagate
               THEN /\ pc' = "except"
                    /\ tick' = [tick EXCEPT !.raised = TRUE]
                    /\ UNCHANGED last_periodic_alert_time
               ELSE IF after.next > Len(Notifiers)
               THEN /\ pc' = "sleep"
                    /\ last_periodic_alert_time' = p_now
                    /\ tick' = tick
               ELSE /\ pc' = "periodic_send"
                    /\ UNCHANGED <<last_periodic_alert_time, tick>>
    /\ UNCHANGED <<exchanges, markets, running, prices, todo, last_alert_time,
                   p_now, event, last_emit, last_broadcast, compared, outcome>>
    /\ UNCHANGED <<engine_vars, feed_vars, process_vars>>

\* start(): except Exception as e: logger.error(...), then the sleep
HandleError ==
    /\ pc = "except"
    /\ pc' = "sleep"
    /\ prices' = <<>>
    /\ todo' = <<>>
    /\ compared' = {}
    /\ outcome' = NoOutcome
    /\ UNCHANGED <<exchanges, markets, running, now, last_alert_time,
                   last_periodic_alert_time, p_now, event, sink, attempts, last_emit,
                   last_broadcast, tick>>
    /\ UNCHANGED <<engine_vars, feed_vars, process_vars>>

\* a plausible slip: `while True`, the loop never looks at the flag
AfterSleepIgnoresFlag(flag) == "check_spreads"

\* `while self.running`, evaluated when the sleep is over
AfterSleep(flag) == IF flag THEN "check_spreads" ELSE "done"

\* await asyncio.sleep(self.check_interval), then `while self.running`
Sleep ==
    /\ pc = "sleep"
    /\ \E d \in Delays :
         /\ now + CheckInterval + d <= MaxTime
         /\ now' = now + CheckInterval + d
    /\ pc' = AfterSleep(running)
    /\ event' = "none"
    /\ sink' = 0
    /\ attempts' = NoAttempts
    /\ p_now' = 0
    /\ tick' = NewTick
    /\ UNCHANGED <<exchanges, markets, running, prices, todo, last_alert_time,
                   last_periodic_alert_time, last_emit, last_broadcast, compared, outcome>>
    /\ UNCHANGED <<engine_vars, feed_vars, process_vars>>

\* the same step, noting for the next tick that building the broadcast raised
\* in this one
SleepNoting ==
    /\ pc = "sleep"
    /\ \E d \in Delays :
         /\ now + CheckInterval + d <= MaxTime
         /\ now' = now + CheckInterval + d
    /\ pc' = AfterSleep(running)
    /\ event' = "none"
    /\ sink' = 0
    /\ attempts' = NoAttempts
    /\ p_now' = 0
    /\ tick' = [NewTick EXCEPT !.owed = tick.periodic_ran /\ tick.raised]
    /\ UNCHANGED <<exchanges, markets, running, prices, todo, last_alert_time,
                   last_periodic_alert_time, last_emit, last_broadcast, compared, outcome>>
    /\ UNCHANGED <<engine_vars, feed_vars, process_vars>>

Next ==
    \/ Start
    \/ Stop
    \/ FetchPrices
    \/ Compare
    \/ SendSpreadAlert
    \/ CheckPeriodicAlert
    \/ SendPeriodicAlert
    \/ HandleError
    \/ Sleep

Spec == Init /\ [][Next]_vars

\* the loop with the history of failed broadcasts kept across the sleep
RetryNext ==
    \/ Start
    \/ Stop
    \/ FetchPrices
    \/ Compare
    \/ SendSpreadAlert
    \/ CheckPeriodicAlert
    \/ SendPeriodicAlert
    \/ HandleError
    \/ SleepNoting

SpecRetry == Init /\ [][RetryNext]_vars

----------------------------------------------------------------------------
(* Calls of the BBO evaluation on a constructed strategy *)

EngineInit ==
    /\ Deployed
    /\ Constructed
    /\ orderbook \in [Exchanges -> BookChoices]
    /\ arb = NoArb
    /\ bbo_result = NoBbo
    /\ summary = NoSummary
    /\ ManagerConstructed
    /\ ProcessAtRest

\* await strategy.get_arbitrage_opportunities(symbol)
GetArbitrageOpportunities ==
    /\ arb.status = "none"
    /\ \E symbol \in Symbols :
         arb' = IF ThisIsBound
                THEN Opportunities(symbol, GetBboInfo(symbol))
                ELSE [status |-> "raised", error |-> "NameError", symbol |-> symbol,
                      opportunities |-> <<>>]
    /\ UNCHANGED <<process_vars, exchanges, markets, loop_vars, feed_vars, orderbook, bbo_result, summary>>

\* await exchange_manager.get_bbo_info(symbol), as _send_periodic_alert calls it
GetBboInfoCall ==
    /\ bbo_result.status = "none"
    /\ \E symbol \in Symbols :
         bbo_result' = [status |-> "returned", symbol |-> symbol,
                 info |-> GetBboInfo(symbol),
                 zero_division |-> BboZeroDivisions(symbol)]
    /\ UNCHANGED <<process_vars, exchanges, markets, loop_vars, feed_vars, orderbook, arb, summary>>

\* notifier.send_periodic_alert({symbol: bbo_info}) up to the message being
\* complete; the exception leaves the notifier and is caught by the caller
FormatPeriodicAlert ==
    /\ bbo_result.status = "returned"
    /\ summary.status = "none"
    /\ summary' = IF SummaryDividesByZero(bbo_result.info)
                  THEN [status |-> "raised", error |-> "ZeroDivisionError"]
                  ELSE [status |-> "built", error |-> ""]
    /\ UNCHANGED <<process_vars, exchanges, markets, loop_vars, feed_vars, orderbook, arb, bbo_result>>

EngineNext ==
    \/ GetArbitrageOpportunities
    \/ GetBboInfoCall
    \/ FormatPeriodicAlert

SpecEngine == EngineInit /\ [][EngineNext]_vars

----------------------------------------------------------------------------
(* The order-book streams running on an initialized manager *)

FeedInit == Init

\* start_orderbook_stream(symbol): this.running = True, one task per exchange;
\* main closes the manager last, so no stream is started after close()
StartOrderbookStream ==
    /\ closing = "open"
    /\ \E symbol \in StreamSymbols :
         /\ \A name \in Exchanges : watcher[<<name, symbol>>] = "none"
         /\ watcher' = [w \in Watchers |-> IF w[2] = symbol THEN "created" ELSE watcher[w]]
    /\ m_running' = TRUE
    /\ best' = NoBest
    /\ UNCHANGED <<process_vars, exchanges, markets, loop_vars, engine_vars, closing, orderbooks>>

\* a created task runs for the first time: `while this.running`
WatcherStarts ==
    /\ \E w \in Watchers :
         /\ watcher[w] = "created"
         /\ watcher' = [watcher EXCEPT ![w] = AfterResume(m_running)]
    /\ best' = NoBest
    /\ UNCHANGED <<process_vars, exchanges, markets, loop_vars, engine_vars, m_running, closing,
                   orderbooks>>

\* await exchange.watch_order_book(symbol) returns a book, which is stored, or
\* raises; then the loop condition is evaluated again or the sleep begins
WatchOrderbook ==
    /\ \E w \in Watchers, d \in Delays :
         /\ watcher[w] = "watch"
         /\ now + d <= MaxFeedTime
         /\ now' = now + d
         /\ \/ \E book \in StreamBooks(w[2]) :
                 /\ orderbooks' =
                      PutSnapshot(orderbooks, StoreKey(w[1], w[2]),
                                  [symbol |-> book.symbol, at |-> now + d,
                                   bids |-> book.bids, asks |-> book.asks])
                 /\ watcher' = [watcher EXCEPT ![w] = AfterResume(m_running)]
            \/ /\ watcher' = [watcher EXCEPT ![w] = AfterWatchError(w)]
               /\ UNCHANGED orderbooks
    /\ best' = NoBest
    /\ UNCHANGED <<process_vars, exchanges, markets, running, pc, prices, todo, last_alert_time,
                   last_periodic_alert_time, p_now, event, sink, attempts, last_emit,
                   last_broadcast, compared, outcome, tick, engine_vars, m_running,
                   closing>>

\* await asyncio.sleep(1) returns, then `while this.running`
RetryWatch ==
    /\ \E w \in Watchers :
         /\ watcher[w] = "backoff"
         /\ now + RetryDelay <= MaxFeedTime
         /\ now' = now + RetryDelay
         /\ watcher' = [watcher EXCEPT ![w] = AfterResume(m_running)]
    /\ best' = NoBest
    /\ UNCHANGED <<process_vars, exchanges, markets, running, pc, prices, todo, last_alert_time,
                   last_periodic_alert_time, p_now, event, sink, attempts, last_emit,
                   last_broadcast, compared, outcome, tick, engine_vars, m_running,
                   closing, orderbooks>>

\* await exchange_manager.get_best_prices(symbol)
GetBestPricesCall ==
    /\ best.status = "none"
    /\ \E symbol \in StreamSymbols :
         best' = [status |-> "returned", symbol |-> symbol, at |-> now,
                  prices |-> GetBestPrices(symbol)]
    /\ UNCHANGED <<process_vars, exchanges, markets, loop_vars, engine_vars, m_running, closing,
                   watcher, orderbooks>>

\* close(): the connections are being closed
CloseBegin ==
    /\ closing = "open"
    /\ closing' = "closing"
    /\ best' = NoBest
    /\ UNCHANGED <<process_vars, exchanges, markets, loop_vars, engine_vars, m_running, watcher,
                   orderbooks>>

\* close(): this.running = False
CloseEnd ==
    /\ closing = "closing"
    /\ closing' = "closed"
    /\ m_running' = FALSE
    /\ best' = NoBest
    /\ UNCHANGED <<process_vars, exchanges, markets, loop_vars, engine_vars, watcher, orderbooks>>

FeedNext ==
    \/ StartOrderbookStream
    \/ WatcherStarts
    \/ WatchOrderbook
    \/ RetryWatch
    \/ GetBestPricesCall
    \/ CloseBegin
    \/ CloseEnd

SpecFeed == FeedInit /\ [][FeedNext]_vars

----------------------------------------------------------------------------
(* Shutdown: the watcher tasks and the evaluation loop after close(), stop() *)

\* The watcher tasks and the loop of SpreadStrategy share no variable
\* (this.running and self.running are fields of different objects), so a step
\* of one leaves the other where it is: each is explored with the other at rest.
ShutdownNext ==
    \/ ManagerConstructed /\ Next
    \/ pc = "idle" /\ StartOrderbookStream
    \/ pc = "idle" /\ WatcherStarts
    \/ pc = "idle" /\ WatchOrderbook
    \/ pc = "idle" /\ RetryWatch
    \/ pc = "idle" /\ CloseBegin
    \/ pc = "idle" /\ CloseEnd

\* explored on the deployment with three exchanges
ShutdownInit == Init /\ Len(exchanges) = 3

SpecShutdown == ShutdownInit /\ [][ShutdownNext]_vars

----------------------------------------------------------------------------
(* The process from its start to its exit: main() *)

MainInit ==
    /\ Deployed
    /\ Constructed
    /\ orderbook = [name \in Exchanges |-> NoBook]
    /\ arb = NoArb
    /\ bbo_result = NoBbo
    /\ summary = NoSummary
    /\ ManagerConstructed
    /\ config_file \in ConfigFiles
    /\ config_data = <<>>
    /\ main_pc = "start"
    /\ main_error = "none"
    /\ exit_code = 0 - 1
    /\ components = {}
    /\ interrupted = FALSE
    /\ order_call = NoOrder
    /\ venue_calls = {}
    /\ ReleaseAtRest

\* config = Config()
MainLoadConfig ==
    /\ main_pc = "start"
    /\ IF ConfigError(config_file) # "none"
       THEN /\ main_error' = ConfigError(config_file)
            /\ main_pc' = "except"
            /\ UNCHANGED <<config_data, components>>
       ELSE /\ config_data' = SetDefaults(config_file.data)
            /\ components' = components \cup {"config"}
            /\ main_pc' = "configured"
            /\ UNCHANGED main_error
    /\ UNCHANGED <<config_file, exit_code, interrupted>>
    /\ UNCHANGED <<exchanges, markets, loop_vars, engine_vars, feed_vars, order_vars,
                   release_vars>>

\* main(), from ExchangeManager(config) to the await of strategy.start():
\* initialize() subscripts its config before its try block, then re-raises
\* what an exchange raised; Notifier() rejects an unknown type
MainStartup ==
    /\ main_pc = "configured"
    /\ IF ~Subscriptable(ConfigArgument)
       THEN /\ main_error' = "TypeError"
            /\ main_pc' = "except"
            /\ components' = components \cup {"exchange_manager"}
       ELSE \E initialized \in BOOLEAN :
              IF ~initialized
              THEN /\ main_error' = "ExchangeError"
                   /\ main_pc' = "except"
                   /\ components' = components \cup {"exchange_manager"}
              ELSE IF \E i \in DOMAIN config_data["notifiers"] :
                         NotifierError(config_data["notifiers"][i]) # "none"
              THEN /\ main_error' = "ValueError"
                   /\ main_pc' = "except"
                   /\ components' = components \cup {"exchange_manager"}
              ELSE /\ main_pc' = "running"
                   /\ components' = components \cup
                          {"exchange_manager", "notifiers", "strategy"}
                   /\ UNCHANGED main_error
    /\ UNCHANGED <<config_file, config_data, exit_code, interrupted>>
    /\ UNCHANGED <<exchanges, markets, loop_vars, engine_vars, feed_vars, order_vars,
                   release_vars>>

\* except Exception as e: logger.exception(...); sys.exit(1)
MainExcept ==
    /\ main_pc = "except"
    /\ exit_code' = 1
    /\ main_pc' = "finally"
    /\ UNCHANGED <<config_file, config_data, main_error, components, interrupted>>
    /\ UNCHANGED <<exchanges, markets, loop_vars, engine_vars, feed_vars, order_vars,
                   release_vars>>

\* a stop signal while main() runs: KeyboardInterrupt (or the cancellation that
\* asyncio.run makes of it) is no Exception, so only the finally block runs and
\* the interpreter ends with the status of an uncaught KeyboardInterrupt
MainInterrupt ==
    /\ main_pc \in {"start", "configured", "running"}
    /\ interrupted' = TRUE
    /\ exit_code' = KeyboardInterruptStatus
    /\ main_pc' = "finally"
    /\ UNCHANGED <<config_file, config_data, main_error, components>>
    /\ UNCHANGED <<exchanges, markets, loop_vars, engine_vars, feed_vars, order_vars,
                   release_vars>>

\* finally: if 'exchange_manager' in locals(): await exchange_manager.close()
MainFinally ==
    /\ main_pc = "finally"
    /\ main_pc' = "exited"
    /\ IF "exchange_manager" \in components
       THEN closing' = "closed" /\ m_running' = FALSE
       ELSE UNCHANGED <<closing, m_running>>
    /\ UNCHANGED <<watcher, orderbooks, best>>
    /\ UNCHANGED <<config_file, config_data, main_error, exit_code, components,
                   interrupted>>
    /\ UNCHANGED <<exchanges, markets, loop_vars, engine_vars, order_vars, release_vars>>

MainNext ==
    \/ MainLoadConfig
    \/ MainStartup
    \/ MainExcept
    \/ MainInterrupt
    \/ MainFinally

SpecMain == MainInit /\ [][MainNext]_vars

\* the configuration that validation is to let through, stated on the file
WellFormedExchange(exchange) ==
    /\ {"name", "type"} \subseteq DOMAIN exchange
    /\ "mode" \in DOMAIN exchange => exchange["mode"] \in {"public", "private"}
    /\ ("mode" \in DOMAIN exchange /\ exchange["mode"] = "private")
          => /\ {"api_key", "api_secret"} \subseteq DOMAIN exchange
             /\ exchange["api_key"] # "" /\ exchange["api_secret"] # ""
WellFormed(file) ==
    /\ file.status = "loaded"
    /\ {"exchanges", "notifiers"} \subseteq DOMAIN file.data
    /\ file.data["exchanges"] # <<>>
    /\ file.data["notifiers"] # <<>>
    /\ \A i \in DOMAIN file.data["exchanges"] : WellFormedExchange(file.data["exchanges"][i])

\* C22: a process that has exited after a startup failure has a non-zero exit
\* code and its evaluation loop never left its initial position; a process that
\* has exited on a stop signal, with no startup failure, has exit code 0
C22_ExitCodes ==
    main_pc = "exited"
       => /\ main_error # "none" => exit_code # 0 /\ pc = "idle"
          /\ (interrupted /\ main_error = "none") => exit_code = 0

\* C23: Config() returns only for a well-formed file, and then every exchange
\* of config_data has mode public or private; for any other file it raises and
\* main() creates nothing
C23_ConfigValidated ==
    /\ "config" \in components
          => /\ WellFormed(config_file)
             /\ \A i \in DOMAIN config_data["exchanges"] :
                  /\ "mode" \in DOMAIN config_data["exchanges"][i]
                  /\ config_data["exchanges"][i]["mode"] \in {"public", "private"}
    /\ (main_pc \notin {"start", "idle"} /\ ~interrupted /\ ~WellFormed(config_file))
          => /\ components = {}
             /\ main_error \in {"ValueError", "FileNotFoundError"}

\* C23 witness: Config() has returned for a file whose first exchange gives no
\* mode, which is now public, and whose second is private with both credentials
C23_Witness ==
    /\ "config" \in components
    /\ Len(config_data["exchanges"]) = 2
    /\ "mode" \notin DOMAIN config_file.data["exchanges"][1]
    /\ config_data["exchanges"][1]["mode"] = "public"
    /\ config_data["exchanges"][2]["mode"] = "private"
    /\ config_data["exchanges"][2]["api_key"] = "key"


----------------------------------------------------------------------------
(* The order operations of an initialized ExchangeManager *)

OrdersInit ==
    /\ Deployed
    /\ Constructed
    /\ orderbook = [name \in Exchanges |-> NoBook]
    /\ arb = NoArb
    /\ bbo_result = NoBbo
    /\ summary = NoSummary
    /\ ManagerConstructed
    /\ config_file = [status |-> "missing", data |-> <<>>]
    /\ config_data \in ManagerConfigs
    /\ main_pc = "idle"
    /\ main_error = "none"
    /\ exit_code = 0 - 1
    /\ components = {}
    /\ interrupted = FALSE
    /\ order_call = NoOrder
    /\ venue_calls = {}
    /\ ReleaseAtRest

\* the common shape of create_order, get_order_status and cancel_order:
\* this.exchanges[exchange_name], the mode check, then the awaited request,
\* whose exception is logged and re-raised
OrderOperation(op) ==
    /\ \E exchange_name \in OrderTargets, result \in VenueResults :
         IF exchange_name \notin InitializedNames(config_data)
         THEN /\ order_call' = [op |-> op, exchange |-> exchange_name,
                                outcome |-> "KeyError", forwarded |-> FALSE]
              /\ UNCHANGED venue_calls
         ELSE IF OrderRefused(LookupConfig(config_data, exchange_name))
         THEN /\ order_call' = [op |-> op, exchange |-> exchange_name,
                                outcome |-> "ValueError", forwarded |-> FALSE]
              /\ UNCHANGED venue_calls
         ELSE /\ order_call' = [op |-> op, exchange |-> exchange_name,
                                outcome |-> result, forwarded |-> TRUE]
              /\ venue_calls' = venue_calls \cup {<<op, exchange_name>>}
    /\ UNCHANGED <<config_file, config_data, main_pc, main_error, exit_code,
                   components, interrupted, release_vars>>
    /\ UNCHANGED <<exchanges, markets, loop_vars, engine_vars, feed_vars>>

\* create_order: the request is exchange.create_order(...)
CreateOrder ==
    /\ OrderOperation("create_order")
    /\ order_call'.op = "create_order"

\* get_order_status: the request is exchange.fetch_order(order_id)
GetOrderStatus ==
    /\ OrderOperation("get_order_status")
    /\ order_call'.op = "get_order_status"

\* cancel_order: the request is exchange.cancel_order(order_id)
CancelOrder ==
    /\ OrderOperation("cancel_order")
    /\ order_call'.op = "cancel_order"

OrdersNext ==
    \/ CreateOrder
    \/ GetOrderStatus
    \/ CancelOrder

SpecOrders == OrdersInit /\ [][OrdersNext]_vars

\* the exchanges that the configuration puts in private mode
PrivateNames ==
    {config_data["exchanges"][i]["name"] :
        i \in {j \in DOMAIN config_data["exchanges"] :
                 /\ "mode" \in DOMAIN config_data["exchanges"][j]
                 /\ config_data["exchanges"][j]["mode"] = "private"}}

\* C25: every request that reached a venue was for a private-mode exchange; an
\* order operation on an initialized exchange that is not in private mode ends
\* in ValueError with nothing forwarded, and one on a private-mode exchange is
\* forwarded
C25_OrdersGated ==
    /\ \A call \in venue_calls : call[2] \in PrivateNames
    /\ (order_call.op # "none" /\ order_call.exchange \in InitializedNames(config_data))
          => IF order_call.exchange \in PrivateNames
             THEN order_call.forwarded
             ELSE order_call.outcome = "ValueError" /\ ~order_call.forwarded

\* C25 witness: all three operations have been forwarded for the private-mode
\* exchange, and the last call, for an exchange left in public mode by default,
\* raised ValueError
C25_Witness ==
    /\ \A op \in OrderOperations : <<op, "okx">> \in venue_calls
    /\ order_call.exchange = "binance"
    /\ order_call.outcome = "ValueError"
    /\ "mode" \notin DOMAIN config_data["exchanges"][1]

----------------------------------------------------------------------------
(* The connections from initialize() to close(), under both entry points *)

\* main.py and monitor_spread.py, each with its own main()
EntryPoints == {"main.py", "monitor_spread.py"}

\* what ExchangeManager(config) can be given: the Config object, as both entry
\* points do (main.py:28, monitor_spread.py:20), or a mapping, as the
\* signature of __init__ declares
ManagerArguments == {ConfigArgument, "dict"}

\* exchange.close() returns, or raises an Exception
CloseResults == {"closed", "raised"}

\* whether close() is awaited when an exception leaves `position` of the entry
\* point: the finally of main.py encloses the whole body; in monitor_spread.py
\* the inner try/finally, whose finally awaits monitor.stop(), encloses
\* monitor.start() alone
ClosesOnExit(ep, position) == ep = "main.py" \/ position = "running"

ReleaseInit ==
    /\ \E dep \in Deployments :
          /\ init_todo = dep.exchanges
          /\ markets = dep.markets
    /\ exchanges = <<>>
    /\ Constructed
    /\ orderbook = <<>>
    /\ arb = NoArb
    /\ bbo_result = NoBbo
    /\ summary = NoSummary
    /\ ManagerConstructed
    /\ config_file = [status |-> "missing", data |-> <<>>]
    /\ config_data = <<>>
    /\ main_pc = "configured"
    /\ main_error = "none"
    /\ exit_code = 0 - 1
    /\ components = {"config"}
    /\ interrupted = FALSE
    /\ order_call = NoOrder
    /\ venue_calls = {}
    /\ entry_point \in EntryPoints
    /\ manager_config \in ManagerArguments
    /\ close_calls = <<>>

\* exchange_manager = ExchangeManager(config), in monitor_spread.py inside
\* SpreadMonitor(config)
CreateManager ==
    /\ main_pc = "configured"
    /\ components' = components \cup {"exchange_manager"}
    /\ main_pc' = "initialize"
    /\ UNCHANGED <<config_file, config_data, main_error, exit_code, interrupted,
                   order_vars, release_vars>>
    /\ UNCHANGED <<exchanges, markets, loop_vars, engine_vars, feed_vars>>

\* await exchange_manager.initialize(): this.config['exchanges'] is subscripted
\* for the loop, then one turn of the loop per step: the exchange is created,
\* its markets are loaded and it is stored, or the exception is logged and
\* raised again
Initialize ==
    /\ main_pc = "initialize"
    /\ IF ~Subscriptable(manager_config)
       THEN /\ main_error' = "TypeError"
            /\ main_pc' = "except"
            /\ UNCHANGED <<exchanges, init_todo>>
       ELSE IF init_todo = <<>>
       THEN /\ main_pc' = "running"
            /\ UNCHANGED <<exchanges, init_todo, main_error>>
       ELSE \E loaded \in BOOLEAN :
              IF loaded
              THEN /\ exchanges' = Append(exchanges, Head(init_todo))
                   /\ init_todo' = Tail(init_todo)
                   /\ UNCHANGED <<main_pc, main_error>>
              ELSE /\ main_error' = "ExchangeError"
                   /\ main_pc' = "except"
                   /\ UNCHANGED <<exchanges, init_todo>>
    /\ UNCHANGED <<config_file, config_data, exit_code, components, interrupted,
                   order_vars, entry_point, manager_config, close_calls>>
    /\ UNCHANGED <<markets, loop_vars, engine_vars, feed_vars>>

\* except Exception as e: log, sys.exit(1); SystemExit then passes through the
\* finally of main.py, and leaves monitor_spread.py at once
StartupFails ==
    /\ main_pc = "except"
    /\ exit_code' = 1
    /\ main_pc' = IF ClosesOnExit(entry_point, "initialize") THEN "close" ELSE "exited"
    /\ UNCHANGED <<config_file, config_data, main_error, components, interrupted,
                   order_vars, release_vars>>
    /\ UNCHANGED <<exchanges, markets, loop_vars, engine_vars, feed_vars>>

\* a stop signal while initialize() or the loop is awaited: the
\* KeyboardInterrupt, or the cancellation asyncio.run makes of it, is no
\* Exception and unwinds through the finally blocks that enclose the await
StopSignal ==
    /\ main_pc \in {"initialize", "running"}
    /\ interrupted' = TRUE
    /\ exit_code' = KeyboardInterruptStatus
    /\ main_pc' = IF ClosesOnExit(entry_point, main_pc) THEN "close" ELSE "exited"
    /\ UNCHANGED <<config_file, config_data, main_error, components, order_vars,
                   release_vars>>
    /\ UNCHANGED <<exchanges, markets, loop_vars, engine_vars, feed_vars>>

\* close(): one turn of `for exchange_name, exchange in this.exchanges.items()`
\* per step, the exception of exchange.close() logged; after the last turn
\* this.running = False
Close ==
    /\ main_pc = "close"
    /\ IF Len(close_calls) < Len(exchanges)
       THEN /\ \E result \in CloseResults :
                 close_calls' = Append(close_calls,
                                       [name |-> exchanges[Len(close_calls) + 1],
                                        result |-> result])
            /\ closing' = "closing"
            /\ UNCHANGED <<main_pc, m_running>>
       ELSE /\ closing' = "closed"
            /\ m_running' = FALSE
            /\ main_pc' = "exited"
            /\ UNCHANGED close_calls
    /\ UNCHANGED <<watcher, orderbooks, best>>
    /\ UNCHANGED <<config_file, config_data, main_error, exit_code, components,
                   interrupted, order_vars, entry_point, manager_config, init_todo>>
    /\ UNCHANGED <<exchanges, markets, loop_vars, engine_vars>>

ReleaseNext ==
    \/ CreateManager
    \/ Initialize
    \/ StartupFails
    \/ StopSignal
    \/ Close

SpecRelease == ReleaseInit /\ [][ReleaseNext]_vars

\* the exchanges on which close() has awaited exchange.close()
CloseAttempted == {close_calls[i].name : i \in DOMAIN close_calls}

\* C31: when the entry point has ended after the ExchangeManager was created,
\* close() has run to its end and has awaited exchange.close() on every
\* exchange that initialize() had stored, whatever the earlier ones answered
C31_ReleasedOnEveryExit ==
    (main_pc = "exited" /\ "exchange_manager" \in components)
        => /\ closing = "closed"
           /\ CloseAttempted = {exchanges[i] : i \in DOMAIN exchanges}

\* close() has run
Closed == closing = "closed"
\* stop() has run on a started strategy
Stopped == ~running /\ pc # "idle"

\* resumptions a watcher task still needs at most before it has ended
WatcherRank(w) ==
    CASE watcher[w] = "watch" -> 2
      [] watcher[w] \in {"created", "backoff"} -> 1
      [] OTHER -> 0
RECURSIVE WatchersRank(_)
WatchersRank(W) ==
    IF W = {} THEN 0
    ELSE LET w == CHOOSE x \in W : TRUE
         IN WatcherRank(w) + WatchersRank(W \ {w})

\* steps the loop still needs at most before it has ended, once stopped
LoopRank ==
    LET n == Len(Notifiers)
        unit == n + 2
        base == n + 3
        most == Cardinality(Symbols) * Len(exchanges) * Len(exchanges)
    IN CASE pc = "done" -> 0
         [] pc = "sleep" -> 1
         [] pc = "except" -> 2
         [] pc = "periodic_send" -> 3 + (n - sink)
         [] pc = "compare" -> base + Len(todo) * unit
         [] pc = "alert_send" -> base + Len(todo) * unit + 1 + (n + 1 - sink)
         [] pc = "check_spreads" -> base + (most + 1) * unit
         [] OTHER -> 0

\* a step after close() or stop() lowers the rank of the component it moves
TowardsTheEnd ==
    /\ Closed =>
          \/ watcher' = watcher
          \/ WatchersRank(DOMAIN watcher)' < WatchersRank(DOMAIN watcher)
    /\ Stopped =>
          \/ <<pc, todo, sink>>' = <<pc, todo, sink>>
          \/ LoopRank' < LoopRank

\* C18: once close() has run, every step of a watcher task brings the tasks
\* closer to their end, and once stop() has run every step of the loop brings
\* it closer to its end; the ranks are naturals, so when every pending call
\* returns or raises and the tasks are scheduled fairly all of them terminate
C18_ShutdownTerminates == [][TowardsTheEnd]_vars

\* C18 witness: close() has run and every watcher task, started and having
\* stored snapshots, has ended
C18_Witness ==
    /\ Closed
    /\ \A w \in Watchers : watcher[w] = "done"
    /\ DOMAIN orderbooks = Exchanges

\* C24: in every store the watchers can build, writing a snapshot for a venue
\* and writing it again gives the store of the single write, and so the same
\* best prices; writing again what a venue's entry already holds changes nothing
C24_PutIdempotent ==
    /\ \A k \in DOMAIN orderbooks :
          PutSnapshot(orderbooks, k, orderbooks[k]) = orderbooks
    /\ \A w \in Watchers : \A book \in StreamBooks(w[2]) :
          LET key == StoreKey(w[1], w[2])
              snapshot == [symbol |-> book.symbol, at |-> now,
                           bids |-> book.bids, asks |-> book.asks]
              once == PutSnapshot(orderbooks, key, snapshot)
              twice == PutSnapshot(once, key, snapshot)
          IN twice = once /\ BestPricesOf(twice) = BestPricesOf(once)

\* C24 witness: every venue has an entry, written at different times, one
\* without bids and one with both sides, so that a write replaces an entry
C24_Witness ==
    /\ DOMAIN orderbooks = Exchanges
    /\ \E k \in DOMAIN orderbooks : orderbooks[k].bids = <<>>
    /\ \E k \in DOMAIN orderbooks : orderbooks[k].bids # <<>> /\ orderbooks[k].at = now
    /\ \E j, k \in DOMAIN orderbooks : orderbooks[j].at < orderbooks[k].at

\* C15: a snapshot older than the configured max age, whatever age below the
\* modelled time that is, is not among the prices get_best_prices returns
C15_StaleExcluded ==
    \E max_age \in 0..(MaxFeedTime - 1) :
       best.status = "returned"
          => \A k \in DOMAIN best.prices : best.at - orderbooks[k].at <= max_age

\* the symbols whose stream has been started
Streamed == {symbol \in StreamSymbols : \E w \in Watchers : w[2] = symbol /\ watcher[w] # "none"}

\* C16: with the streams of two instruments started, get_best_prices(symbol)
\* returns for a venue only a quote observed for that symbol
C16_PerInstrumentSnapshot ==
    (best.status = "returned" /\ Cardinality(Streamed) >= 2)
       => \A k \in DOMAIN best.prices : orderbooks[k].symbol = best.symbol

\* C17: a watcher whose watch raises goes to its retry and ends only when the
\* manager is no longer running; the failure changes no snapshot, no other
\* watcher and not the evaluation loop; after the sleep the watch is retried
C17_FeedIsolation ==
    [][\A w \in Watchers :
         /\ (watcher[w] = "watch" /\ watcher'[w] = "done") => ~m_running
         /\ (watcher[w] = "watch" /\ watcher'[w] = "backoff")
               => /\ orderbooks' = orderbooks
                  /\ \A v \in Watchers \ {w} : watcher'[v] = watcher[v]
                  /\ pc' = pc /\ running' = running
         /\ (watcher[w] = "backoff" /\ watcher'[w] # "backoff")
               => watcher'[w] = IF m_running THEN "watch" ELSE "done"]_vars

\* C17 witness: a watcher sleeps after a failure with its venue's snapshot still
\* stored, while the watcher of another venue has stored a later snapshot and
\* is watching
C17_Witness ==
    /\ m_running
    /\ \E w \in Watchers, v \in Watchers :
          /\ w[1] # v[1]
          /\ watcher[w] = "backoff"
          /\ watcher[v] = "watch"
          /\ w[1] \in DOMAIN orderbooks /\ v[1] \in DOMAIN orderbooks
          /\ orderbooks[v[1]].at > orderbooks[w[1]].at

\* C30: once close() has returned, no step of a watcher task changes the
\* stored order books
C30_NoWriteAfterClose ==
    [][Closed => orderbooks' = orderbooks]_vars

\* the venues that have data for the symbol asked: both sides of the book
VenuesWithData ==
    {name \in Exchanges : /\ ~orderbook[name].raises
                          /\ orderbook[name].bids # <<>>
                          /\ orderbook[name].asks # <<>>}

\* C10: for k >= 2 venues with data the call returns k * (k - 1) directional
\* opportunities, those with a spread <= 0 included
C10_AllDirectionsReturned ==
    (arb.status # "none" /\ Cardinality(VenuesWithData) >= 2)
        => /\ arb.status = "returned"
           /\ Len(arb.opportunities)
                = Cardinality(VenuesWithData) * (Cardinality(VenuesWithData) - 1)

\* the entry of bbo_info that venue `name` would give
TopOfBook(name) ==
    [bid |-> orderbook[name].bids[1][1], bid_volume |-> orderbook[name].bids[1][2],
     ask |-> orderbook[name].asks[1][1], ask_volume |-> orderbook[name].asks[1][2]]

\* C11: when fewer than two venues have data for the instrument, the call
\* returns the empty sequence
C11_FewVenuesEmpty ==
    (arb.status # "none" /\ Cardinality(VenuesWithData) < 2)
        => /\ arb.status = "returned"
           /\ arb.opportunities = <<>>

\* C12: the call returns, and every opportunity of the result buys at the ask
\* of one venue and sells at the bid of another, for the smaller of the two
\* volumes, and no direction appears twice
C12_OpportunityFields ==
    arb.status # "none"
        => /\ arb.status = "returned"
           /\ \A i \in 1..Len(arb.opportunities) :
                 LET o == arb.opportunities[i]
                 IN /\ o.buy_exchange # o.sell_exchange
                    /\ o.buy_price = TopOfBook(o.buy_exchange).ask
                    /\ o.sell_price = TopOfBook(o.sell_exchange).bid
                    /\ o.volume = Min(TopOfBook(o.buy_exchange).ask_volume,
                                      TopOfBook(o.sell_exchange).bid_volume)
                    /\ \A j \in 1..Len(arb.opportunities) :
                          (j # i) => <<o.buy_exchange, o.sell_exchange>>
                                       # <<arb.opportunities[j].buy_exchange,
                                           arb.opportunities[j].sell_exchange>>

\* C14: no spread computation divides by a zero price, whatever the top of
\* book of a venue is: not in get_bbo_info, not in the periodic message, not in
\* get_arbitrage_opportunities
C14_NoDivisionByZero ==
    /\ bbo_result.zero_division = {}
    /\ summary.error # "ZeroDivisionError"
    /\ arb.error # "ZeroDivisionError"

\* C13: the call returns a sequence in non-increasing order of spread
C13_SortedDescending ==
    arb.status # "none"
        => /\ arb.status = "returned"
           /\ \A i \in 1..(Len(arb.opportunities) - 1) :
                 SpreadGeq(arb.opportunities[i], arb.opportunities[i + 1])

\* a step of check_spreads' second loop, where _handle_spread_alert may run
ComparesPair == pc = "compare" /\ todo # <<>>
\* a step of check_periodic_alert or of the broadcast it sends
Broadcasts == (pc = "compare" /\ todo = <<>>) \/ pc = "periodic_send"

\* the frame of the two debounce states in one step
DebounceFrame ==
    /\ \/ last_alert_time' = last_alert_time
       \/ /\ ComparesPair
          /\ outcome'.result = "emitted"
          /\ DOMAIN last_alert_time \subseteq DOMAIN last_alert_time'
          /\ \A key \in DOMAIN last_alert_time' :
               (key \notin DOMAIN last_alert_time
                   \/ last_alert_time'[key] # last_alert_time[key])
                 => /\ key = <<outcome'.pair>>
                    /\ last_alert_time'[key] = outcome'.at
    /\ (ComparesPair /\ outcome'.result # "emitted")
          => last_alert_time' = last_alert_time
    /\ Broadcasts => last_alert_time' = last_alert_time
    /\ (ComparesPair \/ pc = "alert_send")
          => /\ last_periodic_alert_time' = last_periodic_alert_time
             /\ last_broadcast' = last_broadcast

\* C20: last_alert_time changes only at the key of the alert that a step of
\* check_spreads emits, and gets that step's time there; a comparison that is
\* below the threshold or suppressed by the cooldown, and every step of the
\* periodic broadcast, leave last_alert_time as it was; a comparison and the
\* sending of a threshold alert leave last_periodic_alert_time as it was
C20_DebounceFrame == [][DebounceFrame]_vars

\* C20 witness: a comparison has just been suppressed by the cooldown and its
\* key still holds the earlier alert's time, next to another key that holds a
\* different time, after a periodic broadcast has been sent
C20_Witness ==
    /\ outcome.result = "suppressed"
    /\ <<outcome.pair>> \in DOMAIN last_alert_time
    /\ last_alert_time[<<outcome.pair>>] = outcome.prev_pair_at
    /\ outcome.prev_pair_at < outcome.at
    /\ \E other \in DOMAIN last_alert_time :
         last_alert_time[other] # last_alert_time[<<outcome.pair>>]
    /\ last_broadcast > 0

\* the venues whose collected price of `symbol` is usable in this tick
VenuesQuoting(symbol) ==
    {ex \in DOMAIN prices : symbol \in DOMAIN prices[ex] /\ prices[ex][symbol] # NoPrice}
\* the prices of the tick are collected and no symbol has two usable quotes
NoTwoVenueData ==
    /\ DOMAIN prices # {}
    /\ \A symbol \in Symbols : Cardinality(VenuesQuoting(symbol)) < 2

\* C21: in a tick whose collected prices give no symbol a usable quote on two
\* venues no threshold alert is emitted, and the tick does not end in the error
\* handler with a due periodic broadcast that was never checked
C21_HeartbeatWithoutData ==
    NoTwoVenueData
       => /\ tick.alerts = 0
          /\ (pc = "except" /\ PeriodicDue(now)) => tick.periodic_ran

----------------------------------------------------------------------------
(* Properties of the evaluation loop *)

ThresholdMet == outcome.result \in {"suppressed", "emitted"}
\* the venue named first in the alert of the iteration `outcome` describes
OutcomeBuy == MinExchange(outcome.ex1, outcome.price1, outcome.ex2, outcome.price2)
DispatchDone == event # "none" /\ sink > Len(Notifiers)
CheckSpreadsReturning == pc = "compare" /\ todo = <<>>

\* C1: for one (instrument, venue pair), an alert is never emitted less than
\* alert_interval after the previous alert for that instrument and venue pair
C1_Debounce ==
    (outcome.result = "emitted" /\ outcome.prev_at >= 0)
        => outcome.at - outcome.prev_at >= AlertInterval

\* C1 witness: the pair that alerted meets the threshold again inside the
\* cooldown and is suppressed
C1_Witness ==
    /\ outcome.result = "suppressed"
    /\ outcome.prev_at >= 0
    /\ outcome.at - outcome.prev_at < AlertInterval

FirstChecks ==
    /\ tick'.periodic_ran
    /\ ~tick.periodic_ran
    /\ last_broadcast = 0 - 1

C29_LoopSurvives ==
    [][/\ pc = "except" => pc' \in {"except", "sleep"}
       /\ (pc = "sleep" /\ running) => pc' \in {"sleep", "check_spreads"}
       /\ pc' = "done" => (pc = "done" \/ ~running)
       /\ (pc \notin {"idle", "check_spreads"} /\ pc' = "check_spreads") => running'
       /\ (pc # "idle" /\ ~running) => ~running']_vars

\* C29 witness: a tick raised, the handler has logged it and the loop, still
\* running, is in the sleep that precedes the next tick
C29_Witness ==
    /\ pc = "sleep"
    /\ tick.raised
    /\ running
    /\ now + CheckInterval <= MaxTime

\* the venue pairs of the symbol in `outcome` that this tick compared before
\* the one in `outcome` and whose spread met the threshold
EarlierMeeting ==
    {c \in compared \ {<<outcome.pair, outcome.ex1, outcome.ex2>>} :
        /\ c[1] = outcome.pair
        /\ MeetsThreshold(prices[c[2]][c[1]], prices[c[3]][c[1]])}

\* the latest alert for the symbol in `outcome` came less than alert_interval
\* before the comparison in `outcome`
InsideWindow ==
    outcome.prev_pair_at >= 0 /\ outcome.at - outcome.prev_pair_at < AlertInterval

\* C26 as claimed: an alert for a symbol is never emitted less than
\* alert_interval after the previous alert for that symbol, and in one tick
\* only the first venue pair of a symbol that meets the threshold is alerted
C26_FirstPairOnly ==
    outcome.result = "emitted" => ~InsideWindow /\ EarlierMeeting = {}

\* C26 as amended: an alert for a symbol is never emitted less than
\* alert_interval after the previous alert for that symbol, whatever the venue
\* pairs; a later venue pair of the same tick is alerted only when every earlier
\* one that met the threshold was alerted in this tick at least alert_interval
\* before, and it is suppressed whenever the symbol's latest alert is inside
\* the window
C26_OnePerSymbolWindow ==
    /\ outcome.result = "emitted"
          => /\ ~InsideWindow
             /\ \A c \in EarlierMeeting :
                  /\ c \in DOMAIN last_emit
                  /\ outcome.prev_pair_at >= last_emit[c].at
                  /\ outcome.at - last_emit[c].at >= AlertInterval
    /\ (ThresholdMet /\ InsideWindow) => outcome.result = "suppressed"

\* C26 witness: in a tick that emitted one alert, the only alert so far, a
\* second venue pair of the same symbol meets the threshold and is suppressed
C26_Witness ==
    /\ outcome.result = "suppressed"
    /\ tick.alerts = 1
    /\ Cardinality(DOMAIN last_emit) = 1
    /\ \E c \in EarlierMeeting :
          c \in DOMAIN last_emit /\ last_emit[c].at = outcome.prev_pair_at

\* C27: when building the broadcast raised, the stored time is as the due test
\* found it; when the broadcast was sent, the stored time is the one read before
\* sending; and a tick that follows one in which building the broadcast raised
\* runs the periodic check again before it sleeps
C27_AdvanceAfterSend ==
    /\ (pc = "except" /\ tick.periodic_ran) => PeriodicDue(p_now)
    /\ (pc = "sleep" /\ event = "periodic")
          => last_periodic_alert_time = p_now /\ p_now <= now
    /\ (pc = "sleep" /\ tick.owed) => tick.periodic_ran

\* C4: every tick that reaches its sleep has run the periodic check, whatever
\* the threshold check did
C4_BothChecksEveryTick == pc = "sleep" => tick.periodic_ran

\* C5: a dispatch attempts every notifier whatever the others did, and no
\* exception leaves it
C5_SinkIsolation ==
    event # "none"
        => /\ pc # "except"
           /\ DispatchDone => \A i \in NotifierIds : Len(attempts[i]) >= 1

\* C5 witness: the first notifier raised and the second was still delivered to
C5_Witness ==
    /\ DispatchDone
    /\ attempts[1] = <<"raise">>
    /\ attempts[2] = <<"ok">>

\* C6: within one alert or broadcast no notifier is attempted twice
C6_NoRetry == \A i \in NotifierIds : Len(attempts[i]) <= 1

\* C6 witness: a broadcast whose delivery to a notifier failed has ended, and
\* that notifier was attempted once
C6_Witness ==
    /\ event = "periodic"
    /\ DispatchDone
    /\ \E i \in NotifierIds : attempts[i] = <<"failed">>

\* top of book of a venue whose last price is `last`
Bid(ex, last) == last - BookWidth[ex]
Ask(ex, last) == last + BookWidth[ex]
\* (sell venue's bid - buy venue's ask) / buy venue's ask * 100 >= min_spread
DirectionMeets(buy, buy_last, sell, sell_last) ==
    (Bid(sell, sell_last) - Ask(buy, buy_last)) * 100 >= MinSpread * Ask(buy, buy_last)

C8_FlipSuppressed ==
    (outcome.result = "emitted" /\ outcome.prev_at >= 0 /\ outcome.prev_buy # OutcomeBuy)
        => outcome.at - outcome.prev_at >= AlertInterval

\* C8 witness: the reverse direction meets the threshold inside the cooldown
\* and is suppressed
C8_Witness ==
    /\ outcome.result = "suppressed"
    /\ outcome.prev_at >= 0
    /\ outcome.prev_buy # OutcomeBuy
    /\ outcome.at - outcome.prev_at < AlertInterval

\* the venues with a usable quote for `symbol` in this tick
Usable(symbol) ==
    {ex \in Exchanges : /\ ex \in DOMAIN prices
                        /\ symbol \in DOMAIN prices[ex]
                        /\ prices[ex][symbol] # NoPrice}

\* C9: when a venue has no usable quote for an instrument and two or more
\* others do, the tick does not fail and the others are compared pairwise
C9_MissingVenueTolerated ==
    (CheckSpreadsReturning \/ pc = "except")
        => \A symbol \in {s \in Symbols : EndsWithUSDT(s)} :
             (Cardinality(Usable(symbol)) >= 2 /\ Usable(symbol) # Exchanges)
                => /\ pc # "except"
                   /\ \A ex1 \in Usable(symbol), ex2 \in Usable(symbol) :
                         ~NameGeq(ex1, ex2) => <<symbol, ex1, ex2>> \in compared

====
